---- MODULE Spec2Model ----
(***************************************************************************)
(* State-machine model of api_server.py: module-level configuration        *)
(* resolution, the startup event, and the /download request handler with   *)
(* its XHS session lifecycle.                                              *)
(***************************************************************************)
EXTENDS Integers, Sequences, FiniteSets, TLC

(* ---------- bounds ---------- *)
NumRequests == 2
MaxResults == 2
MaxStartupRuns == 2

(* ---------- program constants ---------- *)
XhsTimeout == 30
XhsMaxRetry == 3

Requests == 1..NumRequests

(* ---------- values ---------- *)
\* exception classes a configuration provider call can raise
BootErrors == {"ImportError", "ValueError"}
DirOrder == <<"downloads", "temp", "Volume", "logs">>

NoConfig == [profile |-> "unset", rate_limit_enabled |-> FALSE]
NoEnv == [environment |-> "unset", api_enabled |-> FALSE]

\* exception classes seen by the handler's except clauses
ErrTypes == {"Exception", "HTTPException", "BaseException"}
NoErr == [type |-> "none", text |-> ""]
Errors == [type : ErrTypes, text : {"boom"}]
Str(e) == e.text

\* a Python value returned by extract: None or a list
PyNone == [none |-> TRUE, items |-> <<>>]
PyList(n) == [none |-> FALSE, items |-> [i \in 1..n |-> i]]
PyResults == {PyNone} \cup {PyList(n) : n \in 0..MaxResults}

Return(v) == [kind |-> "return", value |-> v, err |-> NoErr]
Raise(e) == [kind |-> "raise", value |-> PyNone, err |-> e]
NoOutcome == [kind |-> "pending", value |-> PyNone, err |-> NoErr]
ExtractOutcomes == {Return(v) : v \in PyResults} \cup {Raise(e) : e \in Errors}

MissingUrl == "<missing>"
UrlOf(r) == IF r = 1 THEN "u1" ELSE IF r = 2 THEN "u2" ELSE "u3"
\* request 1 carries the boundary bodies (no url, empty url)
BodyUrls(r) == IF r = 1 THEN {MissingUrl, "", UrlOf(r)} ELSE {UrlOf(r)}

(* ---------- responses ---------- *)
NoData == [present |-> FALSE, url |-> "", status |-> "", message |-> "",
           result_count |-> 0, results |-> <<>>]
NoResp == [kind |-> "none", status |-> 0, success |-> FALSE,
           message |-> <<>>, data |-> NoData, err |-> NoErr]
\* class DownloadResponse(BaseModel)
DownloadResponse(success, message, data) ==
  [kind |-> "DownloadResponse", status |-> 200, success |-> success,
   message |-> message, data |-> data, err |-> NoErr]
\* an exception leaving the handler towards the framework
Propagated(e) ==
  [kind |-> "propagated", status |-> 0, success |-> FALSE,
   message |-> <<>>, data |-> NoData, err |-> e]
\* a response produced before the handler (middleware or body validation)
Refused(status) ==
  [kind |-> "refused", status |-> status, success |-> FALSE,
   message |-> <<>>, data |-> NoData, err |-> NoErr]

VARIABLES
  bootpc,      \* position of the module-level code and startup
  api_config,  \* module global api_config
  env_config,  \* module global env_config
  setupRan,    \* profiles whose setup_*_environment() has run
  prodErr,     \* exception class raised while loading production, or "none"
  simpleErr,   \* exception class raised while loading simple, or "none"
  dirs,        \* directories existing under project_root
  startupLog,  \* what startup_event logged last
  runs,        \* how many times startup_event has run
  prevDirs,    \* dirs as the last run of startup_event found them
  prevLog,     \* startupLog as the last run of startup_event found it
  rpc,         \* per request: position in middleware / handler
  gate,        \* per request: decision of the auth middleware
  route,       \* per request: the route that handled it
  body,        \* per request: JSON body a status endpoint returned
  req,         \* per request: parsed DownloadRequest
  xhs,         \* per request: handler-local xhs (key into sessions, 0 = unbound)
  pending,     \* per request: handler-local outcome of the awaited extract
  elapsed,     \* per request: XhsTimeout seconds passed while extract is awaited
  resp,        \* per request: what the transport layer got
  raised,      \* per request: the exception raised inside the handler, and where
  sessions     \* the XHS instances, keyed by the request that constructed them

vars == <<bootpc, api_config, env_config, setupRan, prodErr, simpleErr, dirs,
          startupLog, runs, prevDirs, prevLog, rpc, gate, route, body, req, xhs,
          pending, elapsed, resp, raised, sessions>>

reqVars == <<rpc, gate, route, body, req, xhs, pending, elapsed, resp, raised, sessions>>

NoRequest == [url |-> MissingUrl]
NoBody == [shape |-> "none"]
NoRaise == [stage |-> "none", err |-> NoErr]
NoSession ==
  [owner |-> 0, url |-> MissingUrl, timeout |-> 0, max_retry |-> 0,
   state |-> "absent", constructs |-> 0, enters |-> 0, exits |-> 0,
   extracts |-> 0, users |-> {}, out |-> NoOutcome]

Init ==
  /\ bootpc = "import_production"
  /\ api_config = NoConfig
  /\ env_config = NoEnv
  /\ setupRan = {}
  /\ prodErr = "none"
  /\ simpleErr = "none"
  /\ dirs = {}
  /\ startupLog = "none"
  /\ runs = 0
  /\ prevDirs = {}
  /\ prevLog = "none"
  /\ rpc = [r \in Requests |-> "arrived"]
  /\ gate = [r \in Requests |-> "pending"]
  /\ route = [r \in Requests |-> "unrouted"]
  /\ body = [r \in Requests |-> NoBody]
  /\ req = [r \in Requests |-> NoRequest]
  /\ xhs = [r \in Requests |-> 0]
  /\ pending = [r \in Requests |-> NoOutcome]
  /\ elapsed = [r \in Requests |-> FALSE]
  /\ resp = [r \in Requests |-> NoResp]
  /\ raised = [r \in Requests |-> NoRaise]
  /\ sessions = [r \in Requests |-> NoSession]

(* ---------- module-level configuration resolution (lines 46-62) ---------- *)
CallOutcomes == {"ok"} \cup BootErrors

\* except ImportError:
ExceptNothing(e) == FALSE
ExceptImportError(e) == e = "ImportError"

\* an exception raised inside the try body
ProdRaise(e) ==
  /\ prodErr' = e
  /\ bootpc' = IF ExceptImportError(e) THEN "import_simple" ELSE "crashed"

\* an exception raised inside the except body: nothing catches it
SimpleRaise(e) ==
  /\ simpleErr' = e
  /\ bootpc' = "crashed"

ProductionConfigs == [profile : {"production"}, rate_limit_enabled : BOOLEAN]
ProductionEnvs == [environment : {"production"}, api_enabled : BOOLEAN]
SimpleConfigs == [profile : {"simple"}, rate_limit_enabled : BOOLEAN]
SimpleEnvs == [environment : {"simple"}, api_enabled : BOOLEAN]

\* from config.production_config import ...
ImportProduction ==
  /\ bootpc = "import_production"
  /\ \E o \in CallOutcomes :
       IF o = "ok"
       THEN bootpc' = "setup_production" /\ UNCHANGED prodErr
       ELSE ProdRaise(o)
  /\ UNCHANGED <<api_config, env_config, setupRan, simpleErr, dirs, startupLog, runs, prevDirs, prevLog>>
  /\ UNCHANGED reqVars

\* setup_production_environment()
SetupProduction ==
  /\ bootpc = "setup_production"
  /\ \E o \in CallOutcomes :
       IF o = "ok"
       THEN /\ bootpc' = "get_production_config"
            /\ setupRan' = setupRan \cup {"production"}
            /\ UNCHANGED prodErr
       ELSE ProdRaise(o) /\ UNCHANGED setupRan
  /\ UNCHANGED <<api_config, env_config, simpleErr, dirs, startupLog, runs, prevDirs, prevLog>>
  /\ UNCHANGED reqVars

\* api_config = get_production_config()
GetProductionConfig ==
  /\ bootpc = "get_production_config"
  /\ \/ \E c \in ProductionConfigs :
          /\ api_config' = c
          /\ bootpc' = "get_production_auth"
          /\ UNCHANGED prodErr
     \/ \E e \in BootErrors : ProdRaise(e) /\ UNCHANGED api_config
  /\ UNCHANGED <<env_config, setupRan, simpleErr, dirs, startupLog, runs, prevDirs, prevLog>>
  /\ UNCHANGED reqVars

\* env_config = get_production_auth().get_environment_info()
GetProductionAuth ==
  /\ bootpc = "get_production_auth"
  /\ \/ \E c \in ProductionEnvs :
          /\ env_config' = c
          /\ bootpc' = "startup"
          /\ UNCHANGED prodErr
     \/ \E e \in BootErrors : ProdRaise(e) /\ UNCHANGED env_config
  /\ UNCHANGED <<api_config, setupRan, simpleErr, dirs, startupLog, runs, prevDirs, prevLog>>
  /\ UNCHANGED reqVars

\* from config.simple_config import ...
ImportSimple ==
  /\ bootpc = "import_simple"
  /\ \E o \in CallOutcomes :
       IF o = "ok"
       THEN bootpc' = "setup_simple" /\ UNCHANGED simpleErr
       ELSE SimpleRaise(o)
  /\ UNCHANGED <<api_config, env_config, setupRan, prodErr, dirs, startupLog, runs, prevDirs, prevLog>>
  /\ UNCHANGED reqVars

\* setup_simple_environment()
SetupSimple ==
  /\ bootpc = "setup_simple"
  /\ \E o \in CallOutcomes :
       IF o = "ok"
       THEN /\ bootpc' = "get_simple_config"
            /\ setupRan' = setupRan \cup {"simple"}
            /\ UNCHANGED simpleErr
       ELSE SimpleRaise(o) /\ UNCHANGED setupRan
  /\ UNCHANGED <<api_config, env_config, prodErr, dirs, startupLog, runs, prevDirs, prevLog>>
  /\ UNCHANGED reqVars

\* api_config = get_simple_config()
GetSimpleConfig ==
  /\ bootpc = "get_simple_config"
  /\ \/ \E c \in SimpleConfigs :
          /\ api_config' = c
          /\ bootpc' = "get_simple_auth"
          /\ UNCHANGED simpleErr
     \/ \E e \in BootErrors : SimpleRaise(e) /\ UNCHANGED api_config
  /\ UNCHANGED <<env_config, setupRan, prodErr, dirs, startupLog, runs, prevDirs, prevLog>>
  /\ UNCHANGED reqVars

\* env_config = get_simple_auth().get_environment_info()
GetSimpleAuth ==
  /\ bootpc = "get_simple_auth"
  /\ \/ \E c \in SimpleEnvs :
          /\ env_config' = c
          /\ bootpc' = "startup"
          /\ UNCHANGED simpleErr
     \/ \E e \in BootErrors : SimpleRaise(e) /\ UNCHANGED env_config
  /\ UNCHANGED <<api_config, setupRan, prodErr, dirs, startupLog, runs, prevDirs, prevLog>>
  /\ UNCHANGED reqVars

(* ---------- startup_event (lines 100-138) ---------- *)
AllDirs == {DirOrder[i] : i \in 1..Len(DirOrder)}

\* a per-directory handler would go on after the failing mkdir
EnsuredSkipping(k) == AllDirs \ (IF k = 0 THEN {} ELSE {DirOrder[k]})
\* the directories mkdir(exist_ok=True) has ensured when the k-th call is the
\* first to fail (k = 0: none fails)
Ensured(k) ==
  IF k = 0
  THEN {DirOrder[i] : i \in 1..Len(DirOrder)}
  ELSE {DirOrder[i] : i \in 1..(k - 1)}

\* mkdir(exist_ok=True): a directory that is already there is a no-op, one that
\* is not there may fail to be created
MkdirMayFailAnyway(name, d) == TRUE
MkdirMayFail(name, d) == name \notin d

\* the mkdir calls that can be the first to fail (0: none fails)
FailPoints(d) ==
  {0} \cup {k \in 1..Len(DirOrder) : MkdirMayFail(DirOrder[k], d)}

\* except Exception as e: logger.error(...) -- startup_event never raises
AfterStartupUncaught(k) == IF k = 0 THEN "serving" ELSE "crashed"
AfterStartup(k) == "serving"

\* the body of startup_event when the k-th mkdir is the first to fail
StartupBody(k) ==
  /\ dirs' = dirs \cup Ensured(k)
  /\ startupLog' = IF k = 0 THEN "started" ELSE "error"
  /\ bootpc' = AfterStartup(k)
  /\ runs' = runs + 1
  /\ prevDirs' = dirs
  /\ prevLog' = startupLog

startup_event ==
  /\ bootpc = "startup"
  /\ \E k \in FailPoints(dirs) : StartupBody(k)
  /\ UNCHANGED <<api_config, env_config, setupRan, prodErr, simpleErr>>
  /\ UNCHANGED reqVars

\* the routine called once more on the running process
startup_event_again ==
  /\ bootpc = "serving"
  /\ runs < MaxStartupRuns
  /\ \E k \in FailPoints(dirs) : StartupBody(k)
  /\ UNCHANGED <<api_config, env_config, setupRan, prodErr, simpleErr>>
  /\ UNCHANGED reqVars

(* ---------- requests ---------- *)
cfgVars == <<bootpc, api_config, env_config, setupRan, prodErr, simpleErr, dirs,
             startupLog, runs, prevDirs, prevLog>>

Credentials == {"valid", "invalid", "missing"}

\* APIAuthMiddleware: the decision for one request
AuthDecision(cred, overLimit) ==
  IF ~env_config.api_enabled THEN "anonymous"
  ELSE IF cred # "valid" THEN "rejected_auth"
  ELSE IF api_config.rate_limit_enabled /\ overLimit THEN "rejected_rate"
  ELSE "client"

\* app.add_middleware(APIAuthMiddleware): the middleware answers first
AuthGate(r) ==
  /\ bootpc = "serving"
  /\ rpc[r] = "arrived"
  /\ \E cred \in Credentials, overLimit \in BOOLEAN :
       LET d == AuthDecision(cred, overLimit) IN
       /\ gate' = [gate EXCEPT ![r] = d]
       /\ IF d \in {"anonymous", "client"}
          THEN /\ rpc' = [rpc EXCEPT ![r] = "admitted"]
               /\ UNCHANGED resp
          ELSE /\ rpc' = [rpc EXCEPT ![r] = "rejected"]
               /\ resp' = [resp EXCEPT ![r] =
                            Refused(IF d = "rejected_auth" THEN 401 ELSE 429)]
  /\ UNCHANGED <<route, body, req, xhs, pending, elapsed, raised, sessions>>
  /\ UNCHANGED cfgVars

\* the route (and so the handler) is reached only through the middleware
HandlerRunsRegardless(r) == rpc[r] \in {"admitted", "rejected"}
HandlerMayRun(r) == rpc[r] = "admitted"

\* class DownloadRequest(BaseModel): url: str
Validates(url) == url # MissingUrl

\* the body is parsed into a DownloadRequest before the handler body runs
ParseBody(r) ==
  /\ HandlerMayRun(r)
  /\ \E url \in BodyUrls(r) :
       IF Validates(url)
       THEN /\ req' = [req EXCEPT ![r] = [url |-> url]]
            /\ rpc' = [rpc EXCEPT ![r] = "validated"]
            /\ UNCHANGED resp
       ELSE /\ rpc' = [rpc EXCEPT ![r] = "done"]
            /\ resp' = [resp EXCEPT ![r] = Refused(422)]
            /\ UNCHANGED req
  /\ route' = [route EXCEPT ![r] = "/download"]
  /\ UNCHANGED <<gate, body, xhs, pending, elapsed, raised, sessions>>
  /\ UNCHANGED cfgVars

\* except HTTPException: raise / except Exception as e: return DownloadResponse(...)
ExceptReraise(e) == Propagated(e)
Except(e) ==
  IF e.type = "HTTPException" THEN Propagated(e)
  ELSE IF e.type = "Exception"
  THEN DownloadResponse(FALSE, <<"download failed", Str(e)>>, NoData)
  ELSE Propagated(e)

\* xhs = XHS(work_path=..., timeout=30, max_retry=3, ...)
XHS(r, url) ==
  [owner |-> r, url |-> url, timeout |-> XhsTimeout, max_retry |-> XhsMaxRetry,
   state |-> "new", constructs |-> sessions[r].constructs + 1, enters |-> 0,
   exits |-> 0, extracts |-> 0, users |-> {}, out |-> NoOutcome]

\* the handler's local variable xhs
Constructed == {i \in Requests : sessions[i].state # "absent"}
SharedXhs(r) == CHOOSE i \in Constructed : TRUE
LocalXhs(r) == xhs[r]

\* without the inner try the ImportError would reach except Exception
ModuleLoadFolded ==
  DownloadResponse(FALSE, <<"download failed", "boom">>, NoData)
\* except ImportError as e: return DownloadResponse(success=False, ...)
ModuleLoadFailure ==
  DownloadResponse(FALSE, <<"module load failed">>, NoData)

\* download_content up to the first await: log, import XHS, construct, async with
Begin(r) ==
  /\ rpc[r] = "validated"
  /\ \/ \* from source.application import XHS raises ImportError
        /\ resp' = [resp EXCEPT ![r] = ModuleLoadFailure]
        /\ raised' = [raised EXCEPT ![r] =
                       [stage |-> "import", err |-> [type |-> "Exception", text |-> "boom"]]]
        /\ rpc' = [rpc EXCEPT ![r] = "done"]
        /\ UNCHANGED <<xhs, sessions>>
     \/ \* XHS(...) raises
        \E e \in Errors :
          /\ resp' = [resp EXCEPT ![r] = Except(e)]
          /\ raised' = [raised EXCEPT ![r] = [stage |-> "construct", err |-> e]]
          /\ rpc' = [rpc EXCEPT ![r] = "done"]
          /\ UNCHANGED <<xhs, sessions>>
     \/ \* XHS(...) returns the instance; async with awaits __aenter__
        /\ sessions' = [sessions EXCEPT ![r] = XHS(r, req[r].url)]
        /\ xhs' = [xhs EXCEPT ![r] = r]
        /\ rpc' = [rpc EXCEPT ![r] = "aenter"]
        /\ UNCHANGED <<resp, raised>>
  /\ UNCHANGED <<gate, route, body, req, pending, elapsed>>
  /\ UNCHANGED cfgVars

\* __aenter__ completes; on success the body calls xhs.extract(url, download=True)
AEnter(r) ==
  /\ rpc[r] = "aenter"
  /\ LET i == LocalXhs(r) IN
     \/ /\ sessions' = [sessions EXCEPT ![i] =
                         [@ EXCEPT !.state = "open", !.enters = @ + 1,
                                   !.extracts = @ + 1, !.users = @ \cup {r}]]
        /\ rpc' = [rpc EXCEPT ![r] = "extract"]
        /\ UNCHANGED <<resp, raised>>
     \/ \E e \in Errors :
          /\ sessions' = [sessions EXCEPT ![i] = [@ EXCEPT !.users = @ \cup {r}]]
          /\ resp' = [resp EXCEPT ![r] = Except(e)]
          /\ raised' = [raised EXCEPT ![r] = [stage |-> "acquire", err |-> e]]
          /\ rpc' = [rpc EXCEPT ![r] = "done"]
  /\ UNCHANGED <<gate, route, body, req, xhs, pending, elapsed>>
  /\ UNCHANGED cfgVars

\* wall-clock time passes while extract is awaited: the handler has no branch for it
TimeoutElapses(r) ==
  /\ rpc[r] = "extract"
  /\ ~elapsed[r]
  /\ elapsed' = [elapsed EXCEPT ![r] = TRUE]
  /\ UNCHANGED <<rpc, gate, route, body, req, xhs, pending, resp, raised, sessions>>
  /\ UNCHANGED cfgVars

\* result = await xhs.extract(...) returns or raises
ExtractCompletes(r) ==
  /\ rpc[r] = "extract"
  /\ \E o \in ExtractOutcomes :
       /\ pending' = [pending EXCEPT ![r] = o]
       /\ sessions' = [sessions EXCEPT ![LocalXhs(r)] = [@ EXCEPT !.out = o]]
       /\ raised' = [raised EXCEPT ![r] =
                      IF o.kind = "raise"
                      THEN [stage |-> "extract", err |-> o.err] ELSE @]
  /\ rpc' = [rpc EXCEPT ![r] = "aexit"]
  /\ elapsed' = [elapsed EXCEPT ![r] = FALSE]
  /\ UNCHANGED <<gate, route, body, req, xhs, resp>>
  /\ UNCHANGED cfgVars

\* XHS.__aexit__: the session closes its handle
Release(s, r) ==
  [s EXCEPT !.state = "closed", !.exits = @ + 1, !.users = @ \cup {r}]

\* async with xhs: __aexit__ is awaited however the body ended
ReleaseUnlessRaised(s, r, o) == IF o.kind = "raise" THEN s ELSE Release(s, r)
ReleaseOnExit(s, r, o) == Release(s, r)

\* if result:
TruthyNotNone(v) == ~v.none
Truthy(v) == ~v.none /\ Len(v.items) > 0

Reverse(q) == [i \in 1..Len(q) |-> q[Len(q) + 1 - i]]

\* download_info = {"url": ..., "result_count": len(result), "results": result, ...}
download_info_reversed(url, result) ==
  [present |-> TRUE, url |-> url, status |-> "completed",
   message |-> "download complete", result_count |-> Len(result.items),
   results |-> Reverse(result.items)]
download_info(url, result) ==
  [present |-> TRUE, url |-> url, status |-> "completed",
   message |-> "download complete", result_count |-> Len(result.items),
   results |-> result.items]

\* a failure response that still carries the data dictionary
MapResultWithData(url, result) ==
  IF Truthy(result)
  THEN DownloadResponse(TRUE, <<"download succeeded">>, download_info(url, result))
  ELSE DownloadResponse(FALSE, <<"no content">>, download_info(url, result))
\* the result handling after the async with block
MapResult(url, result) ==
  IF Truthy(result)
  THEN DownloadResponse(TRUE, <<"download succeeded">>, download_info(url, result))
  ELSE DownloadResponse(FALSE, <<"no content">>, NoData)

\* a handler that re-ran the request after a failed or empty extraction
RetryOnFailure(o) ==
  IF o.kind = "return" /\ Truthy(o.value) THEN "done" ELSE "validated"
\* return DownloadResponse(...) / raise: the handler invocation is over
Returned(o) == "done"

\* __aexit__ completes; then the exception is handled or the result is mapped
AExit(r) ==
  /\ rpc[r] = "aexit"
  /\ LET i == LocalXhs(r) IN
       sessions' = [sessions EXCEPT ![i] = ReleaseOnExit(@, r, pending[r])]
  /\ resp' = [resp EXCEPT ![r] =
               IF pending[r].kind = "raise"
               THEN Except(pending[r].err)
               ELSE MapResult(req[r].url, pending[r].value)]
  /\ rpc' = [rpc EXCEPT ![r] = Returned(pending[r])]
  /\ UNCHANGED <<gate, route, body, req, xhs, pending, elapsed, raised>>
  /\ UNCHANGED cfgVars

download_content(r) ==
  \/ Begin(r)
  \/ AEnter(r)
  \/ TimeoutElapses(r)
  \/ ExtractCompletes(r)
  \/ AExit(r)

(* ---------- status endpoints (lines 190-245, 330-333) ---------- *)
\* the names the module binds: its imports, its classes and its functions
ModuleNames ==
  {"asyncio", "uvicorn", "logging", "time", "datetime", "FastAPI",
   "HTTPException", "Request", "Depends", "JSONResponse", "CORSMiddleware",
   "BaseModel", "Optional", "List", "Dict", "Any", "sys", "os", "traceback",
   "Path", "Manager", "module_logging", "_", "Cleaner", "beautify_string",
   "APIAuthMiddleware", "get_client_info", "api_config", "env_config",
   "logger", "api_root_path", "app", "startup_event", "DownloadRequest",
   "DownloadResponse", "root", "health_check", "get_info", "get_status",
   "get_auth_status_endpoint", "download_content", "get_client_info_endpoint"}
\* names bound only on the path the configuration resolution took
ProfileNames ==
  IF api_config.profile = "production"
  THEN {"get_production_config", "get_production_auth",
        "setup_production_environment"}
  ELSE {"get_simple_config", "get_simple_auth", "setup_simple_environment"}
\* a global name lookup at call time: NameError when the name is not bound
NameBound(name) == name \in ModuleNames \cup ProfileNames

StatusRoutes == {"/info", "/status", "/auth/status", "/client/info"}

\* a dict returned by a handler, sent as JSON with status 200
JsonOk ==
  [kind |-> "json", status |-> 200, success |-> FALSE, message |-> <<>>,
   data |-> NoData, err |-> NoErr]
\* raise HTTPException(status_code=..., detail=...)
HTTPException(status, detail) ==
  [kind |-> "http_error", status |-> status, success |-> FALSE,
   message |-> detail, data |-> NoData, err |-> NoErr]

\* the projection a bound get_auth_status() would return
AuthStatus ==
  [shape |-> "auth_status", environment |-> env_config.environment,
   auth_enabled |-> env_config.api_enabled,
   rate_limit_enabled |-> api_config.rate_limit_enabled]

StatusFrame(r) ==
  /\ rpc' = [rpc EXCEPT ![r] = "done"]
  /\ UNCHANGED <<gate, req, xhs, pending, elapsed, raised, sessions>>
  /\ UNCHANGED cfgVars

\* GET /info
get_info(r) ==
  /\ bootpc = "serving"
  /\ rpc[r] = "arrived"
  /\ route' = [route EXCEPT ![r] = "/info"]
  /\ IF NameBound("get_auth_status")
     THEN /\ resp' = [resp EXCEPT ![r] = JsonOk]
          /\ body' = [body EXCEPT ![r] = [AuthStatus EXCEPT !.shape = "info"]]
     ELSE /\ resp' = [resp EXCEPT ![r] =
                       HTTPException(500, <<"cannot get service info", "NameError">>)]
          /\ UNCHANGED body
  /\ StatusFrame(r)

\* GET /status
get_status(r) ==
  /\ bootpc = "serving"
  /\ rpc[r] = "arrived"
  /\ route' = [route EXCEPT ![r] = "/status"]
  /\ resp' = [resp EXCEPT ![r] = JsonOk]
  /\ body' = [body EXCEPT ![r] =
               [shape |-> "status", environment |-> env_config.environment,
                auth_enabled |-> env_config.api_enabled,
                rate_limit_enabled |-> api_config.rate_limit_enabled]]
  /\ StatusFrame(r)

\* GET /auth/status
get_auth_status_endpoint(r) ==
  /\ bootpc = "serving"
  /\ rpc[r] = "arrived"
  /\ route' = [route EXCEPT ![r] = "/auth/status"]
  /\ IF NameBound("get_auth_status")
     THEN /\ resp' = [resp EXCEPT ![r] = JsonOk]
          /\ body' = [body EXCEPT ![r] = AuthStatus]
     ELSE /\ resp' = [resp EXCEPT ![r] =
                       HTTPException(500, <<"cannot get auth status", "NameError">>)]
          /\ UNCHANGED body
  /\ StatusFrame(r)

\* GET /client/info: echoes the client_info the auth layer resolved
get_client_info_endpoint(r) ==
  /\ HandlerMayRun(r)
  /\ route' = [route EXCEPT ![r] = "/client/info"]
  /\ resp' = [resp EXCEPT ![r] = JsonOk]
  /\ body' = [body EXCEPT ![r] = [shape |-> "client_info", client_id |-> gate[r]]]
  /\ StatusFrame(r)

StatusRead(r) ==
  \/ get_info(r)
  \/ get_status(r)
  \/ get_auth_status_endpoint(r)
  \/ get_client_info_endpoint(r)

Boot ==
  \/ ImportProduction
  \/ SetupProduction
  \/ GetProductionConfig
  \/ GetProductionAuth
  \/ ImportSimple
  \/ SetupSimple
  \/ GetSimpleConfig
  \/ GetSimpleAuth
  \/ startup_event

Next ==
  \/ Boot
  \/ \E r \in Requests : AuthGate(r) \/ ParseBody(r) \/ download_content(r)

Spec == Init /\ [][Next]_vars

\* the boot sequence with the startup routine run up to MaxStartupRuns times
NextBootstrap ==
  \/ Boot
  \/ startup_event_again

SpecBootstrap == Init /\ [][NextBootstrap]_vars

\* the service with its status endpoints beside the download route
NextService ==
  \/ Next
  \/ \E r \in Requests : StatusRead(r)

SpecService == Init /\ [][NextService]_vars

(* ======================= claims ======================= *)
Done(r) == rpc[r] = "done"
HandlerSteps == {"construct", "acquire", "extract"}
Folded(e) == DownloadResponse(FALSE, <<"download failed", Str(e)>>, NoData)

\* C1: a /download request whose url is the empty string gets success=false
\* and no Extractor is constructed, acquired or invoked for it.
EmptyUrlRejected ==
  \A r \in Requests :
    req[r].url = "" =>
      /\ sessions[r].state = "absent"
      /\ sessions[r].extracts = 0
      /\ Done(r) => ~resp[r].success

\* C2: an acquired session is released exactly once on every exit path of the
\* extraction step, and no request that has responded holds an open session.
ReleasedExactlyOnce ==
  \A r \in Requests :
    LET s == sessions[r] IN
    /\ s.enters <= 1
    /\ s.exits <= s.enters
    /\ (Done(r) /\ s.enters = 1) => s.exits = 1
    /\ (Done(r) /\ s.out.kind # "pending") => s.exits = 1
    /\ Done(r) => s.state # "open"

ReleasedAfterRaise ==
  \E r \in Requests :
    /\ Done(r)
    /\ sessions[r].out.kind = "raise"
    /\ sessions[r].enters = 1
    /\ sessions[r].exits = 1
    /\ sessions[r].state = "closed"

\* C3 (as stated): any error raised while constructing, acquiring or
\* extracting yields a DownloadResponse with success=false carrying the
\* stringified error, whatever the error's type.
EveryErrorFolded ==
  \A r \in Requests :
    (/\ Done(r)
     /\ raised[r].stage \in HandlerSteps
     /\ raised[r].err.type \in {"Exception", "HTTPException"})
    => resp[r] = Folded(raised[r].err)

\* C3 (amended): an error of class Exception other than HTTPException raised
\* while constructing, acquiring or extracting yields a DownloadResponse with
\* success=false carrying the stringified error; an HTTPException, and an
\* error outside the Exception hierarchy, leaves the handler unconverted.
OrdinaryErrorsFolded ==
  \A r \in Requests :
    (Done(r) /\ raised[r].stage \in HandlerSteps) =>
      IF raised[r].err.type = "Exception"
      THEN resp[r] = Folded(raised[r].err)
      ELSE resp[r] = Propagated(raised[r].err)

OrdinaryErrorWasFolded ==
  \E r \in Requests :
    /\ Done(r)
    /\ raised[r].stage = "extract"
    /\ raised[r].err.type = "Exception"
    /\ resp[r].kind = "DownloadResponse"
    /\ ~resp[r].success
    /\ resp[r].message = <<"download failed", "boom">>

\* C4 (as stated): whenever loading the production provider fails for any
\* reason, the simple profile is used and the boot is not aborted.
FallbackOnAnyFailure ==
  (prodErr # "none" /\ simpleErr = "none") => bootpc # "crashed"

\* C4 (amended): when loading the production provider raises ImportError, the
\* resolver goes on to the simple provider, and if that one loads the boot
\* reaches serving with the simple profile; any other exception class raised
\* by the production provider is not caught and ends the process.
ProductionPath ==
  {"import_production", "setup_production", "get_production_config",
   "get_production_auth"}
FallbackOnImportError ==
  /\ prodErr = "ImportError" =>
       /\ bootpc \notin ProductionPath
       /\ simpleErr = "none" => bootpc # "crashed"
       /\ bootpc \in {"startup", "serving"} =>
            /\ api_config.profile = "simple"
            /\ env_config.environment = "simple"
            /\ "simple" \in setupRan
  /\ prodErr \notin {"none", "ImportError"} => bootpc = "crashed"

ServingAfterFallback ==
  /\ bootpc = "serving"
  /\ prodErr = "ImportError"
  /\ api_config.profile = "simple"
  /\ env_config.environment = "simple"

\* C5: in every boot that reaches serving exactly one profile is activated:
\* the setup of at most one profile has run and api_config and env_config
\* both come from that profile.
ExactlyOneProfileActivated ==
  bootpc = "serving" =>
    /\ Cardinality(setupRan) = 1
    /\ setupRan = {api_config.profile}
    /\ env_config.environment = api_config.profile

\* C6: for a request the auth middleware rejected, the handler never starts:
\* no body is parsed, no Extractor is constructed and nothing is extracted.
RejectedNeverHandled ==
  \A r \in Requests :
    gate[r] \in {"rejected_auth", "rejected_rate"} =>
      /\ env_config.api_enabled
      /\ rpc[r] = "rejected"
      /\ resp[r].kind = "refused"
      /\ req[r] = NoRequest
      /\ sessions[r] = NoSession
      /\ raised[r] = NoRaise

RejectedBesideHandled ==
  \E r, q \in Requests :
    /\ gate[r] = "rejected_auth"
    /\ gate[q] = "client"
    /\ Done(q)
    /\ sessions[q].extracts = 1

\* C7: a non-empty result of length n gives success=true with
\* data.result_count = n and data.results equal to the extractor's sequence.
NonEmptyResultMapped ==
  \A r \in Requests :
    LET o == sessions[r].out IN
    (Done(r) /\ o.kind = "return" /\ ~o.value.none /\ Len(o.value.items) >= 1) =>
      /\ resp[r].kind = "DownloadResponse"
      /\ resp[r].success
      /\ resp[r].data.present
      /\ resp[r].data.result_count = Len(o.value.items)
      /\ resp[r].data.results = o.value.items

TwoResultsMapped ==
  \E r \in Requests :
    /\ Done(r)
    /\ sessions[r].out = Return(PyList(2))
    /\ resp[r].success
    /\ resp[r].data.results = <<1, 2>>

\* C8: an empty or absent result gives success=false ("no content") and no
\* exception reaches the transport layer.
EmptyResultIsFailure ==
  \A r \in Requests :
    LET o == sessions[r].out IN
    (Done(r) /\ o.kind = "return" /\ (o.value.none \/ Len(o.value.items) = 0)) =>
      resp[r] = DownloadResponse(FALSE, <<"no content">>, NoData)

EmptyAndAbsentSeen ==
  \E r, q \in Requests :
    /\ Done(r) /\ sessions[r].out = Return(PyNone)
    /\ Done(q) /\ sessions[q].out = Return(PyList(0))
    /\ ~resp[r].success /\ ~resp[q].success

\* C9: once the per-extraction timeout has elapsed with the extraction still
\* pending, the orchestrator has abandoned it (it is no longer awaited).
TimeoutAbandonsExtraction ==
  \A r \in Requests : elapsed[r] => rpc[r] # "extract"

\* C10: concurrent requests construct, use and release only their own
\* session, and each outcome is decided by the request's own extractor.
IndependentRequests ==
  \A r \in Requests :
    LET s == sessions[r] IN
    /\ s.users \subseteq {r}
    /\ xhs[r] \in {0, r}
    /\ s.state # "absent" => (s.owner = r /\ s.url = req[r].url)
    /\ (Done(r) /\ s.enters = 1) => (s.exits = 1 /\ s.state = "closed")
    /\ (Done(r) /\ s.out.kind = "return") =>
         /\ resp[r].kind = "DownloadResponse"
         /\ resp[r].success <=> (~s.out.value.none /\ Len(s.out.value.items) >= 1)
         /\ resp[r].success =>
              (resp[r].data.url = req[r].url /\ resp[r].data.results = s.out.value.items)
    /\ (Done(r) /\ s.out.kind = "raise") =>
         (~resp[r].success /\ (resp[r].kind = "propagated" => resp[r].err = s.out.err))

BothCompleted ==
  \E r, q \in Requests :
    /\ Done(r) /\ Done(q)
    /\ req[r].url # req[q].url /\ req[r].url # "" /\ req[q].url # ""
    /\ sessions[r].out.kind = "raise" /\ sessions[r].exits = 1
    /\ sessions[q].out = Return(PyList(1)) /\ sessions[q].exits = 1
    /\ resp[q].success /\ ~resp[r].success

\* C11: a request constructs at most one session and calls extract at most
\* once, and once it has its response the handler does nothing more for it.
OneOutcomePerRequest ==
  \A r \in Requests :
    LET s == sessions[r] IN
    /\ s.constructs <= 1
    /\ s.extracts <= 1
    /\ s.enters <= 1
    /\ Done(r) => resp[r].kind # "none"
    /\ resp[r].kind # "none" => rpc[r] \in {"done", "rejected"}

FailedWithoutRetry ==
  \E r, q \in Requests :
    /\ Done(r) /\ sessions[r].out.kind = "raise"
    /\ Done(q) /\ sessions[q].out = Return(PyList(0))
    /\ sessions[r].constructs = 1 /\ sessions[r].extracts = 1
    /\ sessions[q].constructs = 1 /\ sessions[q].extracts = 1

BootstrapFailureNotFatal ==
  /\ startupLog = "error" => bootpc = "serving"
  /\ runs >= 1 => bootpc = "serving"
  /\ bootpc = "crashed" =>
       (runs = 0 /\ (prodErr \notin {"none", "ImportError"} \/ simpleErr # "none"))
  /\ \A r \in Requests :
       resp[r].kind = "DownloadResponse" =>
         resp[r].message \in {<<"download succeeded">>, <<"no content">>,
                              <<"module load failed">>, <<"download failed", "boom">>}

ServingAfterBootstrapFailure ==
  /\ startupLog = "error"
  /\ dirs = {}
  /\ bootpc = "serving"
  /\ \E r \in Requests : Done(r) /\ resp[r].success

\* C14: every status read (/info, /status, /auth/status, /client/info) is
\* answered successfully with its projection, never with an error response.
StatusRoutesSucceed ==
  \A r \in Requests :
    (Done(r) /\ route[r] \in StatusRoutes) =>
      /\ resp[r].kind = "json"
      /\ resp[r].status = 200
      /\ body[r] # NoBody

\* C15: api_config and env_config are each assigned exactly once: once set,
\* neither ever changes.
ConfigAssignedOnce ==
  [][/\ api_config # NoConfig => api_config' = api_config
     /\ env_config # NoEnv => env_config' = env_config]_vars

IsPrefix(d) == \E n \in 0..Len(DirOrder) : d = {DirOrder[i] : i \in 1..n}
BootstrapPrefix ==
  /\ IsPrefix(dirs)
  /\ IsPrefix(prevDirs)
  /\ startupLog = "error" => dirs # AllDirs
  /\ startupLog = "started" => dirs = AllDirs
  /\ runs = 0 => dirs = {}

StoppedAtVolume ==
  /\ runs = 1
  /\ startupLog = "error"
  /\ dirs = {"downloads", "temp"}

\* C18: a DownloadResponse has success=true exactly when data is present, and
\* then result_count >= 1 equals the length of results; every success=false
\* response has no data.
SuccessIffData ==
  \A r \in Requests :
    resp[r].kind = "DownloadResponse" =>
      /\ resp[r].success <=> resp[r].data.present
      /\ resp[r].success =>
           /\ resp[r].data.result_count >= 1
           /\ resp[r].data.result_count = Len(resp[r].data.results)
      /\ ~resp[r].success => resp[r].data = NoData

SuccessAndFailuresSeen ==
  \E r, q \in Requests :
    /\ Done(r) /\ resp[r].kind = "DownloadResponse" /\ resp[r].success
    /\ resp[r].data.result_count = 2
    /\ Done(q) /\ resp[q].kind = "DownloadResponse" /\ ~resp[q].success
    /\ resp[q].data = NoData

====
